---- MODULE Spec2Model ----
(***************************************************************************)
(* A model of rivuletpy/soma.py: the morphological operators SI and IS,    *)
(* the process-wide curvature operator curvop, the two evolvers MorphACWE  *)
(* and MorphGAC, and the driver soma_detect.                               *)
(*                                                                         *)
(* An ndarray is a record [shape, flat]: shape is the tuple of extents and *)
(* flat the row-major (C order) sequence of its entries.  Coordinates are  *)
(* 0-based as in the source.  The entries are integers: the level set, the *)
(* masks and the structuring elements are 0/1 in the source, and the image *)
(* data is drawn from integers.  Where the source divides (region means,   *)
(* np.gradient's central difference, theta/|v|) the model keeps numerator  *)
(* and denominator and compares by cross-multiplication, so the signs and  *)
(* comparisons are those of exact arithmetic.  None is NoneVal.            *)
(***************************************************************************)
EXTENDS Integers, Sequences, FiniteSets, TLC

VARIABLES
    acwe,      \* the MorphACWE instance: _u, data, smoothing, lambda1, lambda2
    gac,       \* the MorphGAC instance: _u, _v, _theta, smoothing, _data, _ddata, masks
    funcs,     \* curvop.funcs: position of the itertools.cycle over [SIoIS, ISoSI]
    pc,        \* the call in progress: "idle", "run", "autoconvg", "soma_loop", ...
    frame,     \* locals of the call in progress (loop index, traces)
    err,       \* the exception the last call raised, "none" when it returned
    soma,      \* soma_detect's arguments, locals and returned mask
    ncalls,    \* history: parity of the number of curvop invocations since load
    oplog,     \* history: the composites applied by the latest step(), in order
    nsteps,    \* history: step() calls made by the latest call
    ncurv      \* history: curvop invocations made by the latest call

vars == <<acwe, gac, funcs, pc, frame, err, soma, ncalls, oplog, nsteps, ncurv>>

----------------------------------------------------------------------------
(* ndarray helpers *)

NoneVal == [shape |-> <<>>, flat |-> <<>>]

IsNone(u) == u.shape = <<>>

Abs(x) == IF x < 0 THEN -x ELSE x

Size(shape) ==
    IF Len(shape) = 2 THEN shape[1] * shape[2]
    ELSE shape[1] * shape[2] * shape[3]

\* The coordinate of the k-th entry (k from 1) of a row-major array.
Coord(shape, k) ==
    IF Len(shape) = 2
    THEN <<(k - 1) \div shape[2], (k - 1) % shape[2]>>
    ELSE <<(k - 1) \div (shape[2] * shape[3]),
           ((k - 1) \div shape[3]) % shape[2],
           (k - 1) % shape[3]>>

Flat(shape, p) ==
    IF Len(shape) = 2
    THEN p[1] * shape[2] + p[2] + 1
    ELSE (p[1] * shape[2] + p[2]) * shape[3] + p[3] + 1

InShape(shape, p) == \A a \in 1..Len(shape) : p[a] >= 0 /\ p[a] < shape[a]

\* u[p], and the border value 0 outside the array.
Get(u, p) == IF InShape(u.shape, p) THEN u.flat[Flat(u.shape, p)] ELSE 0

Shift(p, o, s) == [a \in 1..Len(p) |-> p[a] + s * o[a]]

Unit(n, a) == [b \in 1..n |-> IF b = a THEN 1 ELSE 0]

\* An array of the given shape from a function of the coordinate.
MkArray(shape, f(_)) ==
    [shape |-> shape, flat |-> [k \in 1..Size(shape) |-> f(Coord(shape, k))]]

\* s[lo] + ... + s[hi], halving the range to keep the recursion shallow.
RECURSIVE SumRange(_, _, _)
SumRange(s, lo, hi) ==
    IF lo > hi THEN 0
    ELSE IF lo = hi THEN s[lo]
    ELSE LET mid == (lo + hi) \div 2
         IN  SumRange(s, lo, mid) + SumRange(s, mid + 1, hi)

\* a.sum()
Sum(s) == SumRange(s, 1, Len(s))

----------------------------------------------------------------------------
(* Structuring elements, as sets of offsets from the centre of the kernel. *)

Tri == {-1, 0, 1}

_P2 == << {<<t, t>> : t \in Tri},          \* np.eye(3)
          {<<t, 0>> : t \in Tri},          \* [[0,1,0]]*3
          {<<t, -t>> : t \in Tri},         \* np.flipud(np.eye(3))
          {<<0, t>> : t \in Tri} >>        \* np.rot90([[0,1,0]]*3)

_P3 == << {<<a, b, 0>> : a \in Tri, b \in Tri},
          {<<a, 0, c>> : a \in Tri, c \in Tri},
          {<<0, b, c>> : b \in Tri, c \in Tri},
          {<<a, t, t>> : a \in Tri, t \in Tri},
          {<<a, t, -t>> : a \in Tri, t \in Tri},
          {<<t, b, t>> : t \in Tri, b \in Tri},
          {<<t, b, -t>> : t \in Tri, b \in Tri},
          {<<t, t, c>> : t \in Tri, c \in Tri},
          {<<t, -t, c>> : t \in Tri, c \in Tri} >>

\* scipy.ndimage.binary_erosion(u, S), border_value 0: 1 where S fits inside u.
binary_erosion(u, S) ==
    MkArray(u.shape, LAMBDA p :
        IF \A o \in S : Get(u, Shift(p, o, 1)) # 0 THEN 1 ELSE 0)

\* scipy.ndimage.binary_dilation(u, S), border_value 0: 1 where S hits u.
binary_dilation(u, S) ==
    MkArray(u.shape, LAMBDA p :
        IF \E o \in S : Get(u, Shift(p, o, -1)) # 0 THEN 1 ELSE 0)

PFor(u) == IF Len(u.shape) = 2 THEN _P2 ELSE _P3

\* _aux[i] = binary_erosion(u, P[i]); return _aux.max(0)
SI(u) ==
    LET P == PFor(u)
    IN  MkArray(u.shape, LAMBDA p :
            IF \E i \in 1..Len(P) : \A o \in P[i] : Get(u, Shift(p, o, 1)) # 0
            THEN 1 ELSE 0)

\* _aux[i] = binary_dilation(u, P[i]); return _aux.min(0)
IS(u) ==
    LET P == PFor(u)
    IN  MkArray(u.shape, LAMBDA p :
            IF \A i \in 1..Len(P) : \E o \in P[i] : Get(u, Shift(p, o, -1)) # 0
            THEN 1 ELSE 0)

SIoIS(u) == SI(IS(u))

ISoSI(u) == IS(SI(u))

----------------------------------------------------------------------------
(* curvop = fcycle([SIoIS, ISoSI]): one module-level itertools.cycle. *)

curvop_iterable == <<"SIoIS", "ISoSI">>

\* f = next(self.funcs): the function at the cycle's position ...
fcycle_f(pos) == curvop_iterable[pos]

\* A cycle that never moves on.
fcycle_next_stuck(pos) == pos

\* ... and the position the cycle is left at.
fcycle_next(pos) == (pos % Len(curvop_iterable)) + 1

\* return f(*args, **kwargs)
fcycle_call(pos, u) == IF fcycle_f(pos) = "SIoIS" THEN SIoIS(u) ELSE ISoSI(u)

\* for i in range(smoothing): res = curvop(res)
\* The result of a step() that gets this far: nothing raised, the smoothed
\* level set, the cycle position left behind and the composites applied.
RECURSIVE Smoothing(_, _, _, _)
Smoothing(res, pos, log, n) ==
    IF n <= 0 THEN [raised |-> "none", u |-> res, funcs |-> pos, log |-> log]
    ELSE Smoothing(fcycle_call(pos, res), fcycle_next(pos),
                   Append(log, fcycle_f(pos)), n - 1)

----------------------------------------------------------------------------
(* np.gradient, times 2 so that the central difference stays an integer:   *)
(* (f[i+1]-f[i-1])/2 inside, f[1]-f[0] and f[n-1]-f[n-2] at the two ends.  *)

\* The distance in flat between neighbours along axis a.
Stride(shape, a) ==
    IF a = Len(shape) THEN 1
    ELSE IF a = Len(shape) - 1 THEN shape[Len(shape)]
    ELSE shape[2] * shape[3]

gradient2_at(u, a, p) ==
    LET k == Flat(u.shape, p)
        st == Stride(u.shape, a)
    IN  IF p[a] = 0
        THEN 2 * (u.flat[k + st] - u.flat[k])
        ELSE IF p[a] = u.shape[a] - 1
        THEN 2 * (u.flat[k] - u.flat[k - st])
        ELSE u.flat[k + st] - u.flat[k - st]

gradient2(u) ==
    [a \in 1..Len(u.shape) |-> MkArray(u.shape, LAMBDA p : gradient2_at(u, a, p))]

\* np.gradient raises ValueError unless every axis holds at least 2 entries.
gradient_raises(u) == \E a \in 1..Len(u.shape) : u.shape[a] < 2

----------------------------------------------------------------------------
(* MorphACWE *)

\* __init__
MorphACWE_init(data, smoothing, lambda1, lambda2) ==
    [u |-> NoneVal, smoothing |-> smoothing,
     lambda1 |-> lambda1, lambda2 |-> lambda2, data |-> data]

\* The cast alone, without the two assignments that make the array binary.
levelset_of_cast_only(u) == [shape |-> u.shape, flat |-> u.flat]

\* self._u = np.double(u); self._u[u>0] = 1; self._u[u<=0] = 0
levelset_of(u) ==
    [shape |-> u.shape,
     flat |-> [k \in 1..Len(u.flat) |->
                 IF u.flat[k] > 0 THEN 1
                 ELSE IF u.flat[k] <= 0 THEN 0 ELSE u.flat[k]]]

\* data[mask].sum() and mask.sum() for mask = u>0 (inside) or u<=0 (outside)
MaskedSum(data, u, inside) ==
    Sum([k \in 1..Len(u.flat) |->
            IF (u.flat[k] > 0) = inside THEN data.flat[k] ELSE 0])

MaskedCount(u, inside) ==
    Sum([k \in 1..Len(u.flat) |-> IF (u.flat[k] > 0) = inside THEN 1 ELSE 0])

Sign(x) == IF x < 0 THEN "neg" ELSE IF x > 0 THEN "pos" ELSE "zero"

RECURSIVE GCD(_, _)
GCD(x, y) == IF y = 0 THEN x ELSE GCD(y, x % y)

\* The sign of lambda1*(d - s1/n1)**2 - lambda2*(d - s0/n0)**2 for n0, n1 > 0:
\* that of lambda1*(|d*n1 - s1|*n0)**2 - lambda2*(|d*n0 - s0|*n1)**2, the two
\* bases divided by their greatest common divisor to keep the squares small.
energy_sign(d, lambda1, lambda2, s0, n0, s1, n1) ==
    LET x == Abs(d * n1 - s1) * n0
        y == Abs(d * n0 - s0) * n1
        g == GCD(x, y)
    IN  IF g = 0 THEN "zero"
        ELSE Sign(lambda1 * (x \div g) * (x \div g) - lambda2 * (y \div g) * (y \div g))

\* The sign of aux = abs_dres * (lambda1*(data-c1)**2 - lambda2*(data-c0)**2)
\* with c0 = s0/n0, c1 = s1/n1.  An empty partition makes its mean 0/0.0 = nan
\* (numpy warns, it does not raise), aux is nan everywhere and compares False
\* with 0 both ways: "nan".
aux_sign(self, k, s0, n0, s1, n1) ==
    LET p == Coord(self.u.shape, k)
        abs_dres == Sum([a \in 1..Len(self.u.shape) |->
                            Abs(gradient2_at(self.u, a, p))])
    IN  IF n0 = 0 \/ n1 = 0 THEN "nan"
        ELSE IF abs_dres = 0 THEN "zero"
        ELSE energy_sign(self.data.flat[k], self.lambda1, self.lambda2,
                         s0, n0, s1, n1)

\* res = np.copy(u); res[aux < 0] = 1; res[aux > 0] = 0
acwe_attach(self) ==
    LET s0 == MaskedSum(self.data, self.u, FALSE)
        n0 == MaskedCount(self.u, FALSE)
        s1 == MaskedSum(self.data, self.u, TRUE)
        n1 == MaskedCount(self.u, TRUE)
    IN  [shape |-> self.u.shape,
         flat |-> [k \in 1..Len(self.u.flat) |->
                     LET s == aux_sign(self, k, s0, n0, s1, n1)
                     IN  IF s = "neg" THEN 1 ELSE IF s = "pos" THEN 0
                         ELSE self.u.flat[k]]]

\* MorphACWE.step: what it raises, and the level set, cycle position and log
\* it leaves.
MorphACWE_step(self, pos) ==
    IF IsNone(self.u)
    THEN [raised |-> "ValueError: levelset not set", u |-> self.u,
          funcs |-> pos, log |-> <<>>]
    ELSE IF gradient_raises(self.u)
    THEN [raised |-> "ValueError: gradient", u |-> self.u,
          funcs |-> pos, log |-> <<>>]
    ELSE Smoothing(acwe_attach(self), pos, <<>>, self.smoothing)

----------------------------------------------------------------------------
(* MorphGAC *)

\* data > theta/np.abs(v), entry d.  |v| = 0 makes the quotient numpy's
\* inf (theta > 0), nan (theta = 0) or -inf (theta < 0); it does not raise.
exceeds_quotient(d, theta, v) ==
    IF v # 0 THEN d * Abs(v) > theta
    ELSE IF theta < 0 THEN TRUE ELSE FALSE

\* _update_mask
MorphGAC_update_mask(self) ==
    [self EXCEPT
        !.threshold_mask =
            [shape |-> self.data.shape,
             flat |-> [k \in 1..Len(self.data.flat) |->
                         IF self.data.flat[k] > self.theta THEN 1 ELSE 0]],
        !.threshold_mask_v =
            [shape |-> self.data.shape,
             flat |-> [k \in 1..Len(self.data.flat) |->
                         IF exceeds_quotient(self.data.flat[k], self.theta, self.v)
                         THEN 1 ELSE 0]]]

\* np.ones((3,)*np.ndim(data)), as offsets
ones_structure(data) ==
    IF Len(data.shape) = 2 THEN Tri \X Tri ELSE Tri \X Tri \X Tri

\* set_data
MorphGAC_set_data(self, data) ==
    [MorphGAC_update_mask([self EXCEPT !.data = data, !.ddata = gradient2(data)])
        EXCEPT !.structure = ones_structure(data)]

\* The threshold stored without the masks being recomputed.
MorphGAC_set_threshold_stale(self, theta) == [self EXCEPT !.theta = theta]

\* set_threshold
MorphGAC_set_threshold(self, theta) ==
    MorphGAC_update_mask([self EXCEPT !.theta = theta])

\* set_balloon
MorphGAC_set_balloon(self, v) ==
    MorphGAC_update_mask([self EXCEPT !.v = v])

\* __init__
MorphGAC_init(data, smoothing, threshold, balloon) ==
    MorphGAC_set_data(
        [u |-> NoneVal, v |-> balloon, theta |-> threshold,
         smoothing |-> smoothing, data |-> NoneVal, ddata |-> <<>>,
         threshold_mask |-> NoneVal, threshold_mask_v |-> NoneVal,
         structure |-> {}],
        data)

\* Balloon: res = np.copy(u); aux = dilation (v > 0) or erosion (v < 0) of u
\* by self.structure; if v != 0: res[mask_v] = aux[mask_v]
gac_balloon(self) ==
    LET u == self.u
        aux == IF self.v > 0 THEN binary_dilation(u, self.structure)
               ELSE binary_erosion(u, self.structure)
    IN  IF self.v = 0 THEN u
        ELSE [shape |-> u.shape,
              flat |-> [k \in 1..Len(u.flat) |->
                          IF self.threshold_mask_v.flat[k] = 1
                          THEN aux.flat[k] ELSE u.flat[k]]]

\* Image attachment: aux = sum of dgI[a]*dres[a] over the axes, dres the
\* gradient of res; res[aux > 0] = 1; res[aux < 0] = 0
gac_attach(self, res) ==
    [shape |-> res.shape,
     flat |-> [k \in 1..Len(res.flat) |->
                 LET p == Coord(res.shape, k)
                     aux == Sum([a \in 1..Len(res.shape) |->
                                   self.ddata[a].flat[k] * gradient2_at(res, a, p)])
                 IN  IF aux > 0 THEN 1 ELSE IF aux < 0 THEN 0 ELSE res.flat[k]]]

\* The check for an unset level set returning instead of raising.
MorphGAC_step_silent(self, pos) ==
    IF IsNone(self.u)
    THEN [raised |-> "none", u |-> self.u, funcs |-> pos, log |-> <<>>]
    ELSE IF gradient_raises(self.u)
    THEN [raised |-> "ValueError: gradient", u |-> self.u,
          funcs |-> pos, log |-> <<>>]
    ELSE Smoothing(gac_attach(self, gac_balloon(self)), pos, <<>>, self.smoothing)

\* MorphGAC.step
MorphGAC_step(self, pos) ==
    IF IsNone(self.u)
    THEN [raised |-> "ValueError: levelset not set", u |-> self.u,
          funcs |-> pos, log |-> <<>>]
    ELSE IF gradient_raises(self.u)
    THEN [raised |-> "ValueError: gradient", u |-> self.u,
          funcs |-> pos, log |-> <<>>]
    ELSE Smoothing(gac_attach(self, gac_balloon(self)), pos, <<>>, self.smoothing)

----------------------------------------------------------------------------
(* Calls.  The program is single-threaded: while a call is in progress     *)
(* (pc # "idle") nothing else runs.  A call that has returned or raised    *)
(* rests in pc = "done" with its outcome, until the caller goes on.        *)

\* The cap one too high.
iterations_one_more == 200 + 1

iterations == 200

NoFrame ==
    [op |-> "none", inst |-> "none", i |-> -1, iterations |-> 0,
     foreground_num |-> <<>>, forward_diff_store |-> <<>>,
     cur_slider_diff |-> 0, checked |-> FALSE, stop |-> FALSE]

\* An evolver that does not exist in the scenario at hand.
Absent == [u |-> NoneVal]

\* soma_detect is not running.
NoSoma ==
    [pc |-> "none", img |-> NoneVal, iterations |-> 0, sqrval |-> 0,
     startpt |-> <<>>, endpt |-> <<>>, fullsomaimg |-> NoneVal]

\* Where a call of run()/autoconvg() returns to: soma_detect when it made
\* the call, the outside caller otherwise.  An exception passes through
\* soma_detect, which catches nothing.
ReturnTo == IF soma.pc = "called" THEN "soma_tail" ELSE "done"

\* self.step() of the named evolver, with the cycle where it stands.
StepOf(inst) ==
    IF inst = "acwe" THEN MorphACWE_step(acwe, funcs) ELSE MorphGAC_step(gac, funcs)

\* What a step() leaves behind: self._u = res, and the cycle advanced.
DoStep(inst, r) ==
    /\ acwe' = IF inst = "acwe" THEN [acwe EXCEPT !.u = r.u] ELSE acwe
    /\ gac' = IF inst = "gac" THEN [gac EXCEPT !.u = r.u] ELSE gac
    /\ funcs' = r.funcs
    /\ ncalls' = (ncalls + Len(r.log)) % 2
    /\ oplog' = r.log
    /\ ncurv' = ncurv + Len(r.log)

\* set_levelset / the levelset property setter
set_levelset(inst, u) ==
    /\ pc = "idle"
    /\ acwe' = IF inst = "acwe" THEN [acwe EXCEPT !.u = levelset_of(u)] ELSE acwe
    /\ gac' = IF inst = "gac" THEN [gac EXCEPT !.u = levelset_of(u)] ELSE gac
    /\ UNCHANGED <<funcs, pc, frame, err, soma, ncalls, oplog, nsteps, ncurv>>

\* The data, threshold and balloon setters of MorphGAC.
set_data(data) ==
    /\ pc = "idle"
    /\ gac' = MorphGAC_set_data(gac, data)
    /\ UNCHANGED <<acwe, funcs, pc, frame, err, soma, ncalls, oplog, nsteps, ncurv>>

set_threshold(theta) ==
    /\ pc = "idle"
    /\ gac' = MorphGAC_set_threshold(gac, theta)
    /\ UNCHANGED <<acwe, funcs, pc, frame, err, soma, ncalls, oplog, nsteps, ncurv>>

set_balloon(v) ==
    /\ pc = "idle"
    /\ gac' = MorphGAC_set_balloon(gac, v)
    /\ UNCHANGED <<acwe, funcs, pc, frame, err, soma, ncalls, oplog, nsteps, ncurv>>

\* A direct call of step().
step(inst) ==
    /\ pc = "idle"
    /\ \E r \in {StepOf(inst)} :
           /\ DoStep(inst, r)
           /\ err' = r.raised
    /\ pc' = "done"
    /\ frame' = [NoFrame EXCEPT !.op = "step", !.inst = inst, !.iterations = 1]
    /\ nsteps' = nsteps + 1
    /\ UNCHANGED soma

\* run(iterations): for i in range(iterations): self.step()
run(inst, n) ==
    /\ pc = "idle"
    /\ pc' = "run"
    /\ frame' = [NoFrame EXCEPT !.op = "run", !.inst = inst, !.iterations = n]
    /\ UNCHANGED <<acwe, gac, funcs, err, soma, ncalls, oplog, nsteps, ncurv>>

\* A range one short.
range_has_next_short(i, n) == i + 1 < n - 1

\* Does range(n) hold a value after i?
range_has_next(i, n) == i + 1 < n

run_loop ==
    /\ pc = "run"
    /\ range_has_next(frame.i, frame.iterations)
    /\ \E r \in {StepOf(frame.inst)} :
           /\ DoStep(frame.inst, r)
           /\ err' = r.raised
           /\ pc' = IF r.raised = "none" THEN "run" ELSE "done"
    /\ frame' = [frame EXCEPT !.i = frame.i + 1]
    /\ nsteps' = nsteps + 1
    /\ UNCHANGED soma

run_return ==
    /\ pc = "run"
    /\ ~range_has_next(frame.i, frame.iterations)
    /\ pc' = "done"
    /\ UNCHANGED <<acwe, gac, funcs, frame, err, soma, ncalls, oplog, nsteps, ncurv>>

\* The caller goes on after a call has returned or raised.
continue ==
    /\ pc = "done"
    /\ pc' = "idle"
    /\ frame' = NoFrame
    /\ err' = "none"
    /\ oplog' = <<>>
    /\ nsteps' = 0
    /\ ncurv' = 0
    /\ soma' = NoSoma
    /\ acwe' = IF soma.pc = "none" THEN acwe ELSE Absent   \* macwe was a local
    /\ UNCHANGED <<gac, funcs, ncalls>>

----------------------------------------------------------------------------
(* MorphACWE.autoconvg *)

\* np.zeros(n)
zeros(n) == [k \in 1..n |-> 0]

\* sum(u[u>0])
foreground(u) == Sum([k \in 1..Len(u.flat) |-> IF u.flat[k] > 0 THEN u.flat[k] ELSE 0])

\* np.sum(forward_diff_store[i-6:i-1]): the entries i-6 .. i-2 (0-based),
\* which the sequence holds at i-5 .. i-1.
slider_window(store, i) == SumRange(store, i - 5, i - 1)

\* np.absolute(cur) < 20 | (np.absolute(cur) < (0.1*foreground_num[i]))
\* Python's | binds tighter than <: the right operand is 20 | bool, which is
\* 21 when the second comparison holds and 20 when it does not.  For whole
\* numbers a and n, a < 0.1*n in doubles exactly when 10*a < n.
slider_test(cur, fg) ==
    Abs(cur) < (IF 10 * Abs(cur) < fg THEN 21 ELSE 20)

autoconvg ==
    /\ pc = "idle"
    /\ pc' = "autoconvg"
    /\ frame' = [NoFrame EXCEPT !.op = "autoconvg", !.inst = "acwe",
                                !.iterations = iterations,
                                !.foreground_num = zeros(iterations),
                                !.forward_diff_store = zeros(iterations)]
    /\ UNCHANGED <<acwe, gac, funcs, err, soma, ncalls, oplog, nsteps, ncurv>>

\* One pass of the body of autoconvg's for loop, i the loop variable.
autoconvg_body(i, r) ==
    LET fg == [frame.foreground_num EXCEPT ![i + 1] = foreground(r.u)]
        store == IF i > 0
                 THEN [frame.forward_diff_store EXCEPT ![i] = fg[i + 1] - fg[i]]
                 ELSE frame.forward_diff_store
        checked == i > 6
        cur == IF checked THEN slider_window(store, i) ELSE frame.cur_slider_diff
        stop == checked /\ slider_test(cur, fg[i + 1])
    IN  [frame EXCEPT !.i = i, !.foreground_num = fg, !.forward_diff_store = store,
                      !.cur_slider_diff = cur, !.checked = checked, !.stop = stop]

autoconvg_loop ==
    /\ pc = "autoconvg"
    /\ range_has_next(frame.i, frame.iterations)
    /\ \E r \in {StepOf("acwe")} : \E f \in {autoconvg_body(frame.i + 1, r)} :
           /\ DoStep("acwe", r)
           /\ err' = r.raised
           /\ frame' = IF r.raised = "none" THEN f ELSE [frame EXCEPT !.i = frame.i + 1]
           /\ pc' = IF r.raised # "none" THEN "done"
                    ELSE IF f.stop THEN ReturnTo ELSE "autoconvg"
           /\ soma' = IF r.raised # "none" /\ soma.pc = "called"
                      THEN [soma EXCEPT !.pc = "raised"] ELSE soma
    /\ nsteps' = nsteps + 1

autoconvg_return ==
    /\ pc = "autoconvg"
    /\ ~range_has_next(frame.i, frame.iterations)
    /\ pc' = ReturnTo
    /\ UNCHANGED <<acwe, gac, funcs, frame, err, soma, ncalls, oplog, nsteps, ncurv>>

----------------------------------------------------------------------------
(* soma_detect *)

Max2(x, y) == IF x > y THEN x ELSE y

Min2(x, y) == IF x < y THEN x ELSE y

\* Is k <= min(max(sqrt(r) * max(ratioxz, ratioyz), 3), sqrt(r) * 6), for the
\* radius r = num/den and ratio?z = shape[?]/shape[2]?  Squared, as whole
\* numbers.
below_sqrval(k, shape, r) ==
    LET m == Max2(shape[1], shape[2])
    IN  /\ k <= 3 \/ k * k * shape[3] * shape[3] * r.den <= r.num * m * m
        /\ k * k * r.den <= 36 * r.num

\* sqrval = np.floor(min(max(somaradius**0.5 * max(ratioxz, ratioyz), 3),
\*                       (somaradius**0.5)*6))
sqrval_of(shape, r) ==
    CHOOSE k \in 0..(6 * (r.num \div r.den + 1)) :
        below_sqrval(k, shape, r) /\ ~below_sqrval(k + 1, shape, r)

\* Clamping to the extent itself rather than to the last index.
clamp_to_shape(x, n) == Min2(Max2(0, x), n)

\* min(max(0, x), n - 1)
clamp(x, n) == Min2(Max2(0, x), n - 1)

\* startpt and endpt after the clamping of lines 475-481
startpt_of(shape, somapos, sqrval) ==
    [a \in 1..3 |-> clamp(somapos[a] - 3 * sqrval, shape[a])]

endpt_of(shape, somapos, sqrval) ==
    [a \in 1..3 |-> clamp(somapos[a] + 3 * sqrval, shape[a])]

\* img[startpt[0]:endpt[0], startpt[1]:endpt[1], startpt[2]:endpt[2]]
crop(img, startpt, endpt) ==
    MkArray([a \in 1..3 |-> Max2(0, endpt[a] - startpt[a])],
            LAMBDA p : Get(img, Shift(p, startpt, 1)))

\* circle_levelset: u = np.float_(sqradius - sqrt(sum((grid - center)**2)) > 0)
circle_levelset(shape, center, sqradius) ==
    MkArray(shape, LAMBDA p :
        LET d2 == Sum([a \in 1..Len(shape) |-> (p[a] - center[a]) * (p[a] - center[a])])
        IN  IF sqradius > 0 /\ d2 < sqradius * sqradius THEN 1 ELSE 0)

\* centerpt = np.floor(somaimg.shape / 2)
centerpt_of(shape) == [a \in 1..Len(shape) |-> shape[a] \div 2]

\* fullsomaimg = np.zeros(img.shape);
\* fullsomaimg[startpt[0]:endpt[0], ...] = macwe._u * 40; astype(np.uint8)
fullsomaimg_of(shape, startpt, endpt, u) ==
    MkArray(shape, LAMBDA p :
        IF \A a \in 1..3 : startpt[a] <= p[a] /\ p[a] < endpt[a]
        THEN (Get(u, Shift(p, startpt, -1)) * 40) % 256
        ELSE 0)

\* soma_detect up to the choice between autoconvg() and the manual loop:
\* the crop, the evolver on it and its circular level set.
soma_detect(img, somapos, somaradius, smoothing, lambda1, lambda2, iters) ==
    /\ pc = "idle"
    /\ LET sqrval == sqrval_of(img.shape, somaradius)
           startpt == startpt_of(img.shape, somapos, sqrval)
           endpt == endpt_of(img.shape, somapos, sqrval)
           somaimg == crop(img, startpt, endpt)
       IN  /\ soma' = [pc |-> "called", img |-> img, iterations |-> iters,
                       sqrval |-> sqrval, startpt |-> startpt, endpt |-> endpt,
                       fullsomaimg |-> NoneVal]
           /\ acwe' = [MorphACWE_init(somaimg, smoothing, lambda1, lambda2)
                          EXCEPT !.u = levelset_of(
                              circle_levelset(somaimg.shape,
                                              centerpt_of(somaimg.shape), sqrval))]
    /\ pc' = IF iters = -1 THEN "autoconvg" ELSE "soma_loop"
    /\ frame' = IF iters = -1
                THEN [NoFrame EXCEPT !.op = "autoconvg", !.inst = "acwe",
                                     !.iterations = iterations,
                                     !.foreground_num = zeros(iterations),
                                     !.forward_diff_store = zeros(iterations)]
                ELSE [NoFrame EXCEPT !.op = "soma_loop", !.inst = "acwe",
                                     !.iterations = iters]
    /\ UNCHANGED <<gac, funcs, err, ncalls, oplog, nsteps, ncurv>>

\* for i in range(iterations): macwe.step()
soma_loop ==
    /\ pc = "soma_loop"
    /\ range_has_next(frame.i, frame.iterations)
    /\ \E r \in {StepOf("acwe")} :
           /\ DoStep("acwe", r)
           /\ err' = r.raised
           /\ pc' = IF r.raised = "none" THEN "soma_loop" ELSE "done"
           /\ soma' = IF r.raised = "none" THEN soma ELSE [soma EXCEPT !.pc = "raised"]
    /\ frame' = [frame EXCEPT !.i = frame.i + 1]
    /\ nsteps' = nsteps + 1

soma_loop_exit ==
    /\ pc = "soma_loop"
    /\ ~range_has_next(frame.i, frame.iterations)
    /\ pc' = "soma_tail"
    /\ UNCHANGED <<acwe, gac, funcs, frame, err, soma, ncalls, oplog, nsteps, ncurv>>

\* The mask is built and returned.
soma_return ==
    /\ pc = "soma_tail"
    /\ soma' = [soma EXCEPT !.pc = "returned",
                            !.fullsomaimg = fullsomaimg_of(soma.img.shape, soma.startpt,
                                                           soma.endpt, acwe.u)]
    /\ pc' = "done"
    /\ UNCHANGED <<acwe, gac, funcs, frame, err, ncalls, oplog, nsteps, ncurv>>

----------------------------------------------------------------------------
(* The evolvers on a small 2D grid: every call of the two classes, in any  *)
(* order, on one MorphACWE and one MorphGAC instance sharing curvop.        *)

MaxSmoothing == 2

MaxRun == 2

Shape2 == <<3, 4>>

\* Image data: a bright left half, and a bright blob on a dim ground.
HalfImage == MkArray(Shape2, LAMBDA p : IF p[2] < 2 THEN 2 ELSE 0)

BlobImage == MkArray(Shape2, LAMBDA p : IF p \in {<<1, 1>>, <<1, 2>>} THEN 3 ELSE 1)

Images == {HalfImage, BlobImage}

\* Arguments of set_levelset: real-valued arrays, not yet 0/1.
LevelSets ==
    { MkArray(Shape2, LAMBDA p : IF p[2] < 1 THEN 2 ELSE -1),
      MkArray(Shape2, LAMBDA p : IF p = <<1, 2>> THEN 1 ELSE 0),
      MkArray(Shape2, LAMBDA p : -1),
      MkArray(Shape2, LAMBDA p : 2) }

Thresholds == {0, 1}

Balloons == {-1, 0, 2}

Evolvers == {"acwe", "gac"}


Common ==
    /\ funcs = 1
    /\ pc = "idle"
    /\ frame = NoFrame
    /\ err = "none"
    /\ soma = NoSoma
    /\ ncalls = 0
    /\ oplog = <<>>
    /\ nsteps = 0
    /\ ncurv = 0

Init ==
    /\ \E sm \in 0..MaxSmoothing : acwe = MorphACWE_init(BlobImage, sm, 1, 1)
    /\ \E v \in Balloons : gac = MorphGAC_init(HalfImage, 1, 0, v)
    /\ Common

Next ==
    \/ \E inst \in Evolvers, u \in LevelSets : set_levelset(inst, u)
    \/ \E inst \in Evolvers : step(inst)
    \/ \E inst \in Evolvers, n \in 0..MaxRun : run(inst, n)
    \/ run_loop
    \/ run_return
    \/ continue

Spec == Init /\ [][Next]_vars

----------------------------------------------------------------------------
(* MorphGAC alone, with its data, threshold and balloon setters. *)

\* The instance is built with the default threshold=0 and balloon=0.
InitGAC ==
    /\ acwe = Absent
    /\ \E sm \in 0..MaxSmoothing : gac = MorphGAC_init(HalfImage, sm, 0, 0)
    /\ Common

NextGAC ==
    \/ \E u \in LevelSets : set_levelset("gac", u)
    \/ \E d \in Images : set_data(d)
    \/ \E theta \in Thresholds : set_threshold(theta)
    \/ \E v \in Balloons : set_balloon(v)
    \/ step("gac")
    \/ \E n \in 0..MaxRun : run("gac", n)
    \/ run_loop
    \/ run_return
    \/ continue

SpecGAC == InitGAC /\ [][NextGAC]_vars

----------------------------------------------------------------------------
(* MorphACWE.autoconvg on strips long enough for the foreground count to   *)
(* move by 20 and more within the sliding window: the image is bright in   *)
(* its first columns and dark after them, the level set starts as the      *)
(* first columns and its front advances a column per step().               *)

\* shape, number of bright columns, smoothing
AutoCases ==
    { [shape |-> <<5, 204>>, bright |-> 202, smoothing |-> 0],
      [shape |-> <<5, 60>>, bright |-> 30, smoothing |-> 0],
      [shape |-> <<5, 60>>, bright |-> 30, smoothing |-> 1],
      [shape |-> <<4, 80>>, bright |-> 78, smoothing |-> 0] }

StripImage(c) == MkArray(c.shape, LAMBDA p : IF p[2] < c.bright THEN 2 ELSE 0)

\* Level sets handed to set_levelset: the first s columns, or nothing.
StripSeeds(shape) ==
    { MkArray(shape, LAMBDA p : IF p[2] < s THEN 2 ELSE -1) : s \in {0, 1, 10} }

InitAuto ==
    /\ \E c \in AutoCases : acwe = MorphACWE_init(StripImage(c), c.smoothing, 1, 1)
    /\ gac = Absent
    /\ Common

NextAuto ==
    \/ \E u \in StripSeeds(acwe.data.shape) : set_levelset("acwe", u)
    \/ autoconvg
    \/ autoconvg_loop
    \/ autoconvg_return
    \/ continue

SpecAuto == InitAuto /\ [][NextAuto]_vars

----------------------------------------------------------------------------
(* soma_detect on small 3D images.  On crops this small the window test    *)
(* ends autoconvg() at its first evaluation, so the exit at the iteration  *)
(* cap is not among the actions here.                                      *)

MaxIterations == 2

SomaShapes == {<<4, 4, 4>>, <<3, 4, 5>>, <<2, 3, 3>>, <<7, 3, 3>>}

\* A bright ball on a dim ground.
SomaImage(shape) ==
    MkArray(shape, LAMBDA p :
        IF (p[1] - 1) * (p[1] - 1) + (p[2] - 1) * (p[2] - 1) + (p[3] - 2) * (p[3] - 2) <= 1
        THEN 200 ELSE 100)

\* Centres inside, on the border of and outside the image.
SomaCentres ==
    {<<1, 1, 2>>, <<0, 3, 1>>, <<2, 2, 2>>, <<4, 1, 1>>, <<-5, 1, 1>>, <<1, 9, 1>>, <<3, 0, 6>>}

\* Radii 0, 1/16, 1/4 and 4, whose square roots are exact in doubles.
SomaRadii == {[num |-> 0, den |-> 1], [num |-> 1, den |-> 16],
              [num |-> 1, den |-> 4], [num |-> 4, den |-> 1]}

InitSoma ==
    /\ acwe = Absent
    /\ gac = Absent
    /\ Common

NextSoma ==
    \/ \E shape \in SomaShapes, c \in SomaCentres, r \in SomaRadii,
          sm \in 0..1, n \in -1..MaxIterations :
          soma_detect(SomaImage(shape), c, r, sm, 1, 1, n)
    \/ soma_loop
    \/ soma_loop_exit
    \/ autoconvg_loop
    \/ soma_return
    \/ continue

SpecSoma == InitSoma /\ [][NextSoma]_vars

----------------------------------------------------------------------------
(* Properties *)

LevelSetOf(inst) == IF inst = "acwe" THEN acwe.u ELSE gac.u

SmoothingOf(inst) == IF inst = "acwe" THEN acwe.smoothing ELSE gac.smoothing

\* This step of the program is a call of step() on the named evolver.
StepCalled(inst) == nsteps' = nsteps + 1 /\ frame'.inst = inst

IsBinary(u) == \A k \in 1..Len(u.flat) : u.flat[k] \in {0, 1}

\* No inside voxel, or no outside voxel.
Degenerate(u) == MaskedCount(u, TRUE) = 0 \/ MaskedCount(u, FALSE) = 0

\* C1: autoconvg() makes at most 200 calls of step(), each pass of its loop
\* taking the loop variable one further towards the cap of 200; when it
\* returns without the window test having stopped it, it has made exactly 200
\* calls and raised nothing.
C1_AutoconvgTerminates ==
    /\ [](frame.op = "autoconvg" =>
            /\ nsteps = frame.i + 1
            /\ nsteps <= 200
            /\ (pc = "done" /\ err = "none" /\ ~frame.stop) => nsteps = 200)
    /\ [][(pc = "autoconvg" /\ pc' = "autoconvg") => frame'.i = frame.i + 1]_vars

C1_Witness ==
    /\ pc = "done" /\ frame.op = "autoconvg" /\ err = "none"
    /\ ~frame.stop /\ nsteps = 200

\* C2: a call of step() on an evolver whose level set is None, made directly
\* or by run(), raises the unset-level-set error and changes nothing: both
\* evolvers and the position of the curvop cycle stay as they were.
C2_UnsetStepFails ==
    [][\A inst \in Evolvers :
          (StepCalled(inst) /\ IsNone(LevelSetOf(inst))) =>
              /\ err' = "ValueError: levelset not set"
              /\ acwe' = acwe /\ gac' = gac
              /\ funcs' = funcs /\ ncalls' = ncalls /\ ncurv' = ncurv]_vars

C2_Witness ==
    /\ pc = "done" /\ frame.op = "run" /\ frame.inst = "gac"
    /\ err = "ValueError: levelset not set"
    /\ IsNone(gac.u) /\ ~IsNone(acwe.u) /\ funcs = 2

\* C3: MorphACWE.step() on a level set with no inside voxel or no outside
\* voxel raises DegeneratePartitionError and leaves the level set alone.
C3_DegenerateRaises ==
    [][(StepCalled("acwe") /\ ~IsNone(acwe.u) /\ Degenerate(acwe.u)) =>
          (err' = "DegeneratePartitionError" /\ acwe'.u = acwe.u)]_vars

\* C4: whenever an evolver holds a level set, after set_levelset of any array
\* and after any steps, every entry of it is 0 or 1.
C4_LevelSetBinary ==
    \A inst \in Evolvers :
        ~IsNone(LevelSetOf(inst)) => IsBinary(LevelSetOf(inst))

C4_Witness ==
    /\ pc = "done" /\ frame.op = "run" /\ frame.inst = "gac" /\ err = "none"
    /\ nsteps = 2 /\ ncurv = 2
    /\ \E k \in 1..Len(gac.u.flat) : gac.u.flat[k] = 1
    /\ \E k \in 1..Len(gac.u.flat) : gac.u.flat[k] = 0
    /\ \E k \in 1..Len(acwe.u.flat) : acwe.u.flat[k] = 1

InBox(p) == \A a \in 1..3 : soma.startpt[a] <= p[a] /\ p[a] < soma.endpt[a]

\* C5: the mask soma_detect returns has the shape of the image, holds only 0
\* and 40, and is 0 outside the box [startpt, endpt), which lies within
\* 0 <= startpt <= endpt <= shape - 1 on every axis.
C5_SomaMask ==
    soma.pc = "returned" =>
        /\ soma.fullsomaimg.shape = soma.img.shape
        /\ \A a \in 1..3 :
              /\ 0 <= soma.startpt[a] /\ soma.startpt[a] <= soma.endpt[a]
              /\ soma.endpt[a] <= soma.img.shape[a] - 1
        /\ \A k \in 1..Len(soma.fullsomaimg.flat) :
              /\ soma.fullsomaimg.flat[k] \in {0, 40}
              /\ ~InBox(Coord(soma.img.shape, k)) => soma.fullsomaimg.flat[k] = 0

C5_Witness ==
    /\ soma.pc = "returned" /\ nsteps >= 1
    /\ \E a \in 1..3 : soma.startpt[a] > 0
    /\ \E k \in 1..Len(soma.fullsomaimg.flat) : soma.fullsomaimg.flat[k] = 40
    /\ \E k \in 1..Len(soma.fullsomaimg.flat) :
          InBox(Coord(soma.img.shape, k)) /\ soma.fullsomaimg.flat[k] = 0

\* C6: run(n) calls step() n times, one after the other, and leaves only
\* then: when it returns it has made n calls of step() and n * smoothing
\* invocations of curvop, and apart from its calls of step() it changes
\* neither evolver nor the cycle, so run(0) leaves the level set as it was.
C6_RunExactly ==
    /\ [](frame.op = "run" =>
            /\ nsteps = frame.i + 1
            /\ nsteps <= frame.iterations
            /\ err = "none" => ncurv = nsteps * SmoothingOf(frame.inst)
            /\ (pc = "done" /\ err = "none") => nsteps = frame.iterations)
    /\ [][(frame'.op = "run" /\ nsteps' = nsteps) =>
             (acwe' = acwe /\ gac' = gac /\ funcs' = funcs)]_vars

C6_Witness ==
    /\ pc = "done" /\ frame.op = "run" /\ frame.inst = "acwe" /\ err = "none"
    /\ frame.iterations = 2 /\ nsteps = 2 /\ acwe.smoothing = 2 /\ ncurv = 4

\* C9: curvop is one round-robin for all evolvers: counted since load, an
\* odd-numbered invocation applies SIoIS and an even-numbered one ISoSI, the
\* cycle stands where that count leaves it, and a step() with an odd
\* smoothing count moves it, whichever evolver makes the step.
C9_RoundRobin ==
    /\ [](/\ funcs = ncalls + 1
          /\ \A j \in 1..Len(oplog) :
                oplog[j] = IF (ncalls + Len(oplog) + j) % 2 = 1
                           THEN "SIoIS" ELSE "ISoSI")
    /\ [][\A inst \in Evolvers :
             (StepCalled(inst) /\ err' = "none") =>
                 /\ Len(oplog') = SmoothingOf(inst)
                 /\ SmoothingOf(inst) % 2 = 1 => funcs' # funcs]_vars

C9_Witness ==
    /\ pc = "done" /\ frame.op = "step" /\ frame.inst = "gac" /\ err = "none"
    /\ oplog = <<"ISoSI">> /\ acwe.smoothing = 1 /\ ~IsNone(acwe.u)

\* C10: the two masks of MorphGAC are those of its current data, threshold
\* and balloon, and the cached gradient that of its current data, whatever
\* setters were called; what changes none of the three changes no mask.
C10_MasksFresh ==
    /\ [](/\ gac.threshold_mask.shape = gac.data.shape
          /\ gac.threshold_mask_v.shape = gac.data.shape
          /\ \A k \in 1..Len(gac.data.flat) :
                /\ gac.threshold_mask.flat[k] = 1 <=> gac.data.flat[k] > gac.theta
                /\ gac.threshold_mask.flat[k] \in {0, 1}
                /\ gac.threshold_mask_v.flat[k] = 1 <=>
                       exceeds_quotient(gac.data.flat[k], gac.theta, gac.v)
                /\ gac.threshold_mask_v.flat[k] \in {0, 1}
          /\ gac.ddata = gradient2(gac.data))
    /\ [][(gac'.data = gac.data /\ gac'.theta = gac.theta /\ gac'.v = gac.v) =>
             /\ gac'.threshold_mask = gac.threshold_mask
             /\ gac'.threshold_mask_v = gac.threshold_mask_v
             /\ gac'.ddata = gac.ddata]_vars

C10_Witness ==
    /\ gac.theta = 1 /\ gac.v = 2 /\ gac.data = BlobImage
    /\ ~IsNone(gac.u) /\ pc = "done" /\ nsteps = 2
    /\ gac.threshold_mask # gac.threshold_mask_v

\* C7: whenever autoconvg() evaluates its window test, it stops exactly when
\* the magnitude of the window statistic is below 20 or below 10% of the
\* current foreground count.
C7_StopsOnEither ==
    (frame.op = "autoconvg" /\ frame.checked /\ err = "none") =>
        (frame.stop <=>
            \/ Abs(frame.cur_slider_diff) < 20
            \/ 10 * Abs(frame.cur_slider_diff) < frame.foreground_num[frame.i + 1])

\* C8: the window statistic tested at iteration i is the sum of the six
\* latest forward differences, count[i] - count[i-6].
C8_WindowOfSix ==
    (frame.op = "autoconvg" /\ frame.checked /\ err = "none") =>
        frame.cur_slider_diff =
            frame.foreground_num[frame.i + 1] - frame.foreground_num[frame.i - 5]

====
